---- MODULE Spec2Model ----
(***************************************************************************)
(* Model of the YouTube data cache (src/src/lib/youtube-cache.ts): the     *)
(* cache directory (Ledger file metadata.json, one Snapshot file per       *)
(* playlist, channel.json, the lock marker cache.lock), the in-process     *)
(* read cache of the Ledger, and the operations loadPlaylistWithCache,     *)
(* loadChannelWithCache, markPlaylistComplete, saveMetadata,               *)
(* saveMetadataAsync, acquireLock and releaseLock, run by several          *)
(* processes that share the directory.  Time is in milliseconds.           *)
(***************************************************************************)
EXTENDS Integers, Sequences, FiniteSets, TLC

(* ------------------------------ bounds --------------------------------- *)
NumTasks == 2
MaxVideo == 2
MaxPages == 2
MaxTicks == 1
MaxCalls == 2
MaxDamage == 1
\* the limits of the specification of concurrent processes
MaxProcCalls == 2
MaxProcVideo == 1
\* the limits of the specification of playlists marked complete
MaxCompleteCalls == 3
MaxCompleteTicks == 1
\* the limits of the specification of paged fetch cycles
MaxFetchVideo == 3
MaxFetchCalls == 2
ScaledPage == 2
\* the limits of the specification of tasks sharing a process
MaxSharedCalls == 2
\* the limits of the specification of the lock
MaxLockCalls == 2
MaxLockTicks == 2
\* the limits of the specification of atomicWriteFile
MaxWrites == 3
MaxChunks == 2
MaxWriteTicks == 1
\* the limits of the specification of fetchWithRetry
MaxRetryCalls == 2
\* the limits of the specification of cache management
MaxManageCalls == 4
MaxManageRemovals == 1
\* the limits of the specification of damaged cache files
MaxCorruptCalls == 3
MaxCorruptDamage == 2
MaxCorruptTicks == 1
\* the limits of the specification of the warmup run
MaxWarmupVideo == 2
\* the limits of the specification of processes that may die
MaxCrashCalls == 3
\* the limits of the specification of the study store: the first and the last day, how
\* many days may pass at once, and the number of sessions started
FirstDay == 2
MaxDay == 6
MaxDayJump == 2
MaxSessions == 3

(* ------------------------- program constants --------------------------- *)
CACHE_TTL_HOURS == 24
MS_PER_HOUR == 3600000
METADATA_CACHE_TTL_MS == 5000
LOCK_TIMEOUT_MS == 30000
LOCK_POLL_MS == 50
PAGE_SIZE == 50
MAX_RETRIES == 3
BACKOFF_BASE_MS == 1000

Tasks == 1..NumTasks
\* operating-system processes, named like tasks
Procs == Tasks

Playlists == {"A", "B"}
Channel == "channel"
Colls == Playlists \cup {Channel}

\* sequences of distinct video ids among 1..n, in source order
IdSeqs(n) == {s \in UNION {[1..k -> 1..n] : k \in 0..n} :
                \A i, j \in DOMAIN s : i # j => s[i] # s[j]}
\* the caps (maxResults) callers pass
Caps(n) == {1, n}
CACHE_TTL_MS == CACHE_TTL_HOURS * MS_PER_HOUR
\* time steps: the read-cache lifetime, and just past the Snapshot TTL
TickJumps == {METADATA_CACHE_TTL_MS, CACHE_TTL_MS + 1}

Min(a, b) == IF a < b THEN a ELSE b

SliceKeepsAll(s, n) == s

\* s.slice(0, n)
Slice(s, n) == SubSeq(s, 1, Min(n, Len(s)))

\* the elements of s at the positions in I, in the order of s
Pick(s, I) ==
  LET F[k \in 0..Len(s)] ==
        IF k = 0 THEN <<>>
        ELSE IF k \in I THEN Append(F[k - 1], s[k]) ELSE F[k - 1]
  IN F[Len(s)]

Range(s) == {s[i] : i \in DOMAIN s}

(* ----------------------------- data model ------------------------------ *)
\* JS object with no own keys
NoPlaylists == [x \in {} |-> 0]

\* { lastUpdated: new Date().toISOString(), playlists: {} }
EmptyMetadata(t) == [lastUpdated |-> t, playlists |-> NoPlaylists, channel |-> <<>>]

\* a file of the cache directory: absent, unparseable, or a parseable value
AbsentLedger == [kind |-> "absent", data |-> EmptyMetadata(0)]
CorruptLedger == [kind |-> "corrupt", data |-> EmptyMetadata(0)]
OkLedger(m) == [kind |-> "ok", data |-> m]
\* metadata.json parses, but to a value without the property 'playlists' (such as {}):
\* the parsed value is told apart by a lastUpdated that no clock gives
MisshapenMetadata == [lastUpdated |-> 0 - 1, playlists |-> <<>>, channel |-> <<>>]
IsMisshapen(m) == m.lastUpdated < 0
MisshapenLedger == [kind |-> "misshapen", data |-> MisshapenMetadata]

NoSnapData == [lastFetched |-> 0, isComplete |-> FALSE, videoCount |-> 0, videos |-> <<>>]
AbsentSnap == [kind |-> "absent", data |-> NoSnapData]
CorruptSnap == [kind |-> "corrupt", data |-> NoSnapData]
OkSnap(d) == [kind |-> "ok", data |-> d]

\* what a call returned, and by which path of the code ("cached", "empty", "noIds",
\* "fetched", "failed", "marked", "noEntry")
\* cache.lock: absent, or the marker created by 'owner' at 'created'; its content is
\* empty until the creator has written its creation time
NoLockFile == [kind |-> "absent", owner |-> 0, created |-> 0, written |-> FALSE, content |-> 0]
NewLockFile(t, time) ==
  [kind |-> "present", owner |-> t, created |-> time, written |-> FALSE, content |-> 0]

NoResult == [kind |-> "none", items |-> <<>>, via |-> "none"]
Returned(items, via) == [kind |-> "value", items |-> items, via |-> via]
\* the call ended with an error thrown to its caller
Raised(err) == [kind |-> "error", items |-> <<>>, via |-> err]

\* history of a call: the Snapshot file and the Ledger file as they were when the call
\* began, and the Ledger getMetadata() returned to it
NoBefore == [snap |-> AbsentSnap, ledger |-> AbsentLedger, meta |-> EmptyMetadata(0)]

NoCall == [op |-> "none", coll |-> Channel, forceRefresh |-> FALSE,
           isComplete |-> FALSE, cacheOnly |-> FALSE, cap |-> 1]

(* the file system under atomicWriteFile: a file is an inode (a sequence of
   chunks, each tagged with the data it belongs to) reached through a name *)
OldData == [by |-> 0, n |-> 0]
WholeFile(d) == [k \in 1..MaxChunks |-> d]
InitFsys == [inodes |-> <<WholeFile(OldData)>>,   \* inode 1: the target's first content
             target |-> 1,                        \* the inode the target name leads to
             temps |-> <<>>]                      \* temporary name (a timestamp) -> inode
IdleWriter == [pc |-> "idle", name |-> 0, fd |-> 0, off |-> 0, data |-> OldData,
               last |-> "none"]

\* fetchWithRetry: the loop index, lastError, and what the call came to
NoError == [kind |-> "none", at |-> 0]
NoRetry == [pc |-> "idle", i |-> 0, lastError |-> NoError, attempts |-> 0,
            responses |-> <<>>, waitTime |-> 0, raised |-> NoError]

\* what a caller remembers of its previous call
NoPrev == [call |-> NoCall, result |-> NoResult, netCalls |-> 0]

\* cache-manager, warmupCache: no run yet.  'taken' is the number of results the loop
\* has received, 'failedCycles' the number of them that came from a failed fetch cycle,
\* 'order' the collections in the order their results came
NoWarmup == [stage |-> "none", forceRefresh |-> FALSE, taken |-> 0, successCount |-> 0,
             errorCount |-> 0, failedCycles |-> 0, order |-> <<>>]

\* studyStore: dates are day numbers; the empty string of a streak that never began
NoDate == 0

\* studyStore, getDefaultGlobalData: the fields the session and streak functions use
DefaultGlobalData == [sessions |-> <<>>,
                      streak |-> [currentStreak |-> 0, longestStreak |-> 0,
                                  lastStudyDate |-> NoDate, studyDates |-> <<>>]]

\* a browser whose localStorage has no global study data yet ('stored' is the item under
\* STORAGE_KEYS.GLOBAL_DATA: <<>> when absent, else <<data>>)
NoStudy == [stored |-> <<>>, today |-> FirstDay, ids |-> 0]

VARIABLES
  now,            \* Date.now()
  ticks,          \* number of time steps taken
  ledgerFile,     \* metadata.json
  snapFile,       \* playlist_<id>.json and channel.json
  lockFile,       \* cache.lock
  damage,         \* number of external damages done to cache files
  metadataCache,  \* per process: the module variables metadataCache, metadataCacheTime
  pc,             \* per task: where the task is
  call,           \* per task: the operation in progress (or the last one) and its options
  cached,         \* per task: the local 'cached' (Snapshot read at the start of the call)
  videoIds,       \* per task: the local videoIds of fetchPlaylistItems / fetchChannelVideos
  pageCount,      \* per task: the local pageCount of fetchPlaylistItems
  videos,         \* per task: the local videos of fetchVideoDetails
  newMetadata,    \* per task: the argument of saveMetadata
  currentMetadata,\* per task: the local currentMetadata of saveMetadata
  result,         \* per task: what the last call returned
  netCalls,       \* per task: network requests issued by the call in progress (or the last one)
  wrote,          \* per task: files the call in progress (or the last one) has written,
                  \* and "heldMarker" when it removed the marker of a lock holder
  before,         \* per task: Snapshot file and Ledger file as they were when the call began
  calls,          \* per task: number of calls started
  limits,         \* the bounds of the specification in force (never changes)
  startTime,      \* per task: the local startTime of acquireLock
  locked,         \* per task: result of the last acquireLock
  crashed,        \* per task: the process has crashed
  batchAt,        \* per task: the loop index i of fetchVideoDetails
  wakeAt,         \* per task: when the delay(50) of acquireLock ends
  fsys,           \* atomicWriteFile: the inodes and names of one target file and its temporaries
  writer,         \* per task: the atomicWriteFile call in progress (or the last one)
  retry,          \* the fetchWithRetry call in progress (or the last one)
  prev,           \* per task: options, result and network requests of the call before
  cacheDir,       \* the cache directory exists
  warmup,         \* cache-manager: the locals of the warmupCache run
  study           \* studyStore: localStorage's global study data, the day, the ids given out

vars == <<now, ticks, ledgerFile, snapFile, lockFile, damage, metadataCache, pc, call,
          cached, videoIds, pageCount, videos, newMetadata, currentMetadata, result,
          netCalls, wrote, before, calls, limits, startTime, locked, crashed, batchAt, wakeAt,
          fsys, writer, retry, prev, cacheDir, warmup, study>>

\* the process a task runs in: all tasks in one process, or each task in its own
ProcOf(t) == IF limits.shared THEN 1 ELSE t

(* --------------------------- Persistent Store -------------------------- *)
\* existsSync + JSON.parse(readFileSync) with the catch: a missing or
\* unparseable Ledger reads as the empty Ledger stamped with the current time
ReadLedger(file, t) == IF file.kind = "ok" THEN file.data ELSE EmptyMetadata(t)

\* the local 'cached': null, or the parsed Snapshot (only .videos is used)
NoCached == [some |-> FALSE, videos |-> <<>>]
getCachedPlaylist(c) ==
  IF snapFile[c].kind = "ok"
  THEN [some |-> TRUE, videos |-> snapFile[c].data.videos]
  ELSE NoCached

getCachedChannel == getCachedPlaylist(Channel)

\* cached?.videos || []
CachedVideosOrEmpty(t) == IF cached[t].some THEN cached[t].videos ELSE <<>>

(* --------------------------- Metadata Ledger --------------------------- *)
NoMetadataCache == [valid |-> FALSE, value |-> EmptyMetadata(0), time |-> 0]

\* metadataCache && Date.now() - metadataCacheTime < METADATA_CACHE_TTL_MS
MetadataCacheValid(p) ==
  metadataCache[p].valid /\ now - metadataCache[p].time < METADATA_CACHE_TTL_MS

\* getMetadata: JSON.parse(data) is returned as it is, whatever its shape
ParseLedger(file, t) ==
  IF file.kind = "misshapen" THEN MisshapenMetadata ELSE ReadLedger(file, t)

\* what getMetadata() returns
getMetadata(p) ==
  IF MetadataCacheValid(p) THEN metadataCache[p].value ELSE ParseLedger(ledgerFile, now)

\* the module variables after getMetadata()
MetadataCacheAfterGet(p) ==
  IF MetadataCacheValid(p) THEN metadataCache[p]
  ELSE [valid |-> TRUE, value |-> ParseLedger(ledgerFile, now), time |-> now]

MergePlaylistsOverwrite(cur, new) == new

\* { ...currentMetadata.playlists, ...metadata.playlists }: the update's keys win
MergePlaylists(cur, upd) ==
  [k \in (DOMAIN cur) \cup (DOMAIN upd) |-> IF k \in DOMAIN upd THEN upd[k] ELSE cur[k]]

\* mergedMetadata of saveMetadata
MergeMetadata(cur, upd, t) ==
  [lastUpdated |-> t,
   playlists |-> MergePlaylists(cur.playlists, upd.playlists),
   channel |-> IF upd.channel # <<>> THEN upd.channel ELSE cur.channel]

isCacheStaleIgnoringComplete(lastFetched, isComplete) ==
  (now - lastFetched) > CACHE_TTL_MS

isCacheStale(lastFetched, isComplete) ==
  IF isComplete THEN FALSE
  ELSE (now - lastFetched) > CACHE_TTL_MS

\* the collections an update names
Named(upd) == (DOMAIN upd.playlists) \cup (IF upd.channel # <<>> THEN {Channel} ELSE {})

\* the Ledger entry of a collection in a Ledger file, as a sequence of at most one entry
EntryOf(file, k) ==
  IF file.kind # "ok" THEN <<>>
  ELSE IF k = Channel
       THEN (IF file.data.channel # <<>>
             THEN <<[lastFetched |-> file.data.channel[1].lastFetched, isComplete |-> FALSE,
                     videoCount |-> file.data.channel[1].videoCount]>>
             ELSE <<>>)
       ELSE (IF k \in DOMAIN file.data.playlists THEN <<file.data.playlists[k]>> ELSE <<>>)

(* ----------------------------- initial state --------------------------- *)
InitWith(lim) ==
  /\ limits = lim
  /\ now = 0 /\ ticks = 0
  /\ ledgerFile = AbsentLedger
  /\ snapFile = [c \in Colls |-> AbsentSnap]
  /\ lockFile = NoLockFile
  /\ damage = 0
  /\ metadataCache = [p \in Procs |-> NoMetadataCache]
  /\ pc = [t \in Tasks |-> "idle"]
  /\ call = [t \in Tasks |-> NoCall]
  /\ cached = [t \in Tasks |-> NoCached]
  /\ videoIds = [t \in Tasks |-> <<>>]
  /\ pageCount = [t \in Tasks |-> 0]
  /\ videos = [t \in Tasks |-> <<>>]
  /\ batchAt = [t \in Tasks |-> 0]
  /\ newMetadata = [t \in Tasks |-> EmptyMetadata(0)]
  /\ currentMetadata = [t \in Tasks |-> EmptyMetadata(0)]
  /\ result = [t \in Tasks |-> NoResult]
  /\ netCalls = [t \in Tasks |-> 0]
  /\ wrote = [t \in Tasks |-> {}]
  /\ before = [t \in Tasks |-> NoBefore]
  /\ calls = [t \in Tasks |-> 0]
  /\ startTime = [t \in Tasks |-> 0]
  /\ locked = [t \in Tasks |-> FALSE]
  /\ crashed = [t \in Tasks |-> FALSE]
  /\ wakeAt = [t \in Tasks |-> 0]
  /\ fsys = InitFsys
  /\ writer = [t \in Tasks |-> IdleWriter]
  /\ retry = NoRetry
  /\ prev = [t \in Tasks |-> NoPrev]
  /\ cacheDir = FALSE
  /\ warmup = NoWarmup
  /\ study = NoStudy

\* one process, every option value, time steps and external damage
SeqLimits == [tasks |-> {1}, playlists |-> {"A"}, videos |-> MaxVideo, calls |-> MaxCalls,
              ticks |-> MaxTicks, jumps |-> TickJumps, damage |-> MaxDamage,
              force |-> BOOLEAN, complete |-> BOOLEAN, flags |-> BOOLEAN,
              page |-> PAGE_SIZE, shared |-> FALSE, history |-> FALSE]

Init == InitWith(SeqLimits)

\* what no step of a cache operation changes: the clock, the limits, and the state of
\* the separate models of atomicWriteFile and fetchWithRetry
unitVars == <<fsys, writer, retry, warmup, study>>
clockVars == <<now, ticks, limits, unitVars, prev>>
timeVars == <<clockVars, cacheDir>>
lockVars == <<lockFile, startTime, locked, crashed, wakeAt>>
fetchLocals == <<videoIds, pageCount, videos, batchAt>>
metaLocals == <<newMetadata, currentMetadata>>

\* synchronous code of one task is not interleaved with other tasks of its process
SyncPcs == {"saveSnap", "metaRead", "metaWrite"}
MayRun(t) ==
  /\ t \in limits.tasks
  /\ ~crashed[t]
  /\ \A u \in Tasks \ {t} : ProcOf(u) = ProcOf(t) => pc[u] \notin SyncPcs

TotalCalls ==
  LET S[n \in 0..NumTasks] == IF n = 0 THEN 0 ELSE S[n - 1] + calls[n]
  IN S[NumTasks]

\* ensureCacheDir() is modelled where it is first called in a step: the step sets
\* cacheDir (getCachedPlaylist, savePlaylistCache, saveMetadata, acquireLock, and
\* getMetadata when its in-memory copy is not served)

\* a call begins: its options, and the history the properties refer to
Begin(t, c) ==
  /\ pc[t] = "idle"
  /\ MayRun(t)
  /\ TotalCalls < limits.calls
  /\ calls' = [calls EXCEPT ![t] = @ + 1]
  /\ netCalls' = [netCalls EXCEPT ![t] = 0]
  /\ wrote' = [wrote EXCEPT ![t] = {}]
  /\ before' = [before EXCEPT ![t] = [snap |-> snapFile[c], ledger |-> ledgerFile,
                                      meta |-> getMetadata(ProcOf(t))]]

(* --------------------------- Cache Orchestrator ------------------------ *)
\* !playlistMeta || isCacheStale(playlistMeta.lastFetched, playlistMeta.isComplete)
ShouldRefetchPlaylist(metadata, c) ==
  \/ c \notin DOMAIN metadata.playlists
  \/ isCacheStale(metadata.playlists[c].lastFetched, metadata.playlists[c].isComplete)

PlaylistDecisionForceWins(metadata, cach, c, forceRefresh, cacheOnly) ==
  IF cach.some /\ ~forceRefresh /\ (~ShouldRefetchPlaylist(metadata, c) \/ cacheOnly)
  THEN "cached"
  ELSE IF cacheOnly /\ ~forceRefresh THEN "empty" ELSE "fetch"

\* the decision of loadPlaylistWithCache before its try block:
\* "cached" (return cached.videos), "empty" (return []) or "fetch"
PlaylistDecision(metadata, cach, c, forceRefresh, cacheOnly) ==
  IF cach.some /\ ~forceRefresh /\ (~ShouldRefetchPlaylist(metadata, c) \/ cacheOnly)
  THEN "cached"
  ELSE IF cacheOnly THEN "empty" ELSE "fetch"

\* the decision of loadChannelWithCache before its try block
ChannelDecision(metadata, cach, forceRefresh, cacheOnly) ==
  IF /\ cach.some /\ ~forceRefresh /\ metadata.channel # <<>>
     /\ (~isCacheStale(metadata.channel[1].lastFetched, FALSE) \/ cacheOnly)
  THEN "cached"
  ELSE IF cacheOnly THEN "empty" ELSE "fetch"

\* loadPlaylistWithCache / loadChannelWithCache up to the first network request
LoadStart(t, op, c, forceRefresh, isComplete, cacheOnly, cap) ==
  LET p == ProcOf(t)
      metadata == getMetadata(p)
      cach == getCachedPlaylist(c)
      d == IF op = "playlist"
           THEN PlaylistDecision(metadata, cach, c, forceRefresh, cacheOnly)
           ELSE ChannelDecision(metadata, cach, forceRefresh, cacheOnly)
  IN /\ Begin(t, c)
     /\ call' = [call EXCEPT ![t] = [op |-> op, coll |-> c, forceRefresh |-> forceRefresh,
                                     isComplete |-> isComplete, cacheOnly |-> cacheOnly,
                                     cap |-> cap]]
     /\ metadataCache' = [metadataCache EXCEPT ![p] = MetadataCacheAfterGet(p)]
     /\ cached' = [cached EXCEPT ![t] = cach]
     /\ videoIds' = [videoIds EXCEPT ![t] = <<>>]
     /\ pageCount' = [pageCount EXCEPT ![t] = 0]
     /\ videos' = [videos EXCEPT ![t] = <<>>]
     /\ batchAt' = [batchAt EXCEPT ![t] = 0]
     /\ IF op = "playlist" /\ IsMisshapen(metadata)
        THEN \* metadata.playlists[playlistId] of a value without 'playlists'
             /\ pc' = [pc EXCEPT ![t] = "done"]
             /\ result' = [result EXCEPT ![t] = Raised("TypeError")]
        ELSE IF d = "cached"
        THEN /\ pc' = [pc EXCEPT ![t] = "done"]
             /\ result' = [result EXCEPT ![t] = Returned(cach.videos, "cached")]
        ELSE IF d = "empty"
        THEN /\ pc' = [pc EXCEPT ![t] = "done"]
             /\ result' = [result EXCEPT ![t] = Returned(<<>>, "empty")]
        ELSE /\ pc' = [pc EXCEPT ![t] = IF op = "playlist" THEN "list" ELSE "search"]
             /\ result' = [result EXCEPT ![t] = NoResult]
     /\ cacheDir' = TRUE
     /\ UNCHANGED <<clockVars, ledgerFile, snapFile, damage, metaLocals, lockVars>>

LoadPlaylist(t) ==
  \E c \in limits.playlists, forceRefresh \in limits.force, isComplete \in limits.complete,
     cacheOnly \in BOOLEAN, cap \in Caps(limits.videos) :
    LoadStart(t, "playlist", c, forceRefresh, isComplete, cacheOnly, cap)

LoadChannel(t) ==
  \E forceRefresh \in limits.force, cacheOnly \in BOOLEAN, cap \in Caps(limits.videos) :
    LoadStart(t, "channel", Channel, forceRefresh, FALSE, cacheOnly, cap)

CatchResultEmpty(t) == Returned(<<>>, "failed")

\* the catch block of loadPlaylistWithCache / loadChannelWithCache
CatchResult(t) == Returned(IF cached[t].some THEN cached[t].videos ELSE <<>>, "failed")

AfterFailureSavesPartial(t) == IF pc[t] = "details" THEN "saveSnap" ELSE "done"

\* where the call goes when a request of its fetch cycle throws: the catch block returns
AfterFailure(t) == "done"

\* a network request (fetchWithRetry) of the fetch cycle fails after its retries
FetchFails(t) ==
  /\ pc[t] \in {"list", "search", "details"}
  /\ MayRun(t)
  /\ netCalls' = [netCalls EXCEPT ![t] = @ + 1]
  /\ pc' = [pc EXCEPT ![t] = AfterFailure(t)]
  /\ result' = [result EXCEPT ![t] = CatchResult(t)]
  /\ UNCHANGED <<timeVars, ledgerFile, snapFile, damage, metadataCache, call, cached,
                 fetchLocals, metaLocals, wrote, before, calls, lockVars>>

AfterListingAlwaysDetails(ids) == "details"

\* if (videoIds.length === 0) return cached?.videos || []: where the call goes once
\* fetchPlaylistItems has returned
AfterListing(ids) == IF Len(ids) = 0 THEN "done" ELSE "details"

\* one iteration of the do-while of fetchPlaylistItems: a listing page arrives
FetchPage(t) ==
  /\ pc[t] = "list"
  /\ MayRun(t)
  /\ \E chunk \in IdSeqs(limits.videos), hasNext \in BOOLEAN :
       LET all == videoIds[t] \o chunk
           more == hasNext /\ ~(Len(all) >= call[t].cap)
           ids == Slice(all, call[t].cap)
       IN /\ Range(chunk) \cap Range(videoIds[t]) = {}
          /\ Len(chunk) <= limits.page
          /\ hasNext => pageCount[t] + 1 < MaxPages
          /\ netCalls' = [netCalls EXCEPT ![t] = @ + 1]
          /\ pageCount' = [pageCount EXCEPT ![t] = @ + 1]
          /\ IF more
             THEN /\ videoIds' = [videoIds EXCEPT ![t] = all]
                  /\ pc' = pc
                  /\ result' = result
             ELSE /\ videoIds' = [videoIds EXCEPT ![t] = ids]
                  /\ pc' = [pc EXCEPT ![t] = AfterListing(ids)]
                  /\ result' = [result EXCEPT ![t] =
                                  IF AfterListing(ids) = "done"
                                  THEN Returned(CachedVideosOrEmpty(t), "noIds")
                                  ELSE NoResult]
  /\ UNCHANGED <<timeVars, ledgerFile, snapFile, damage, metadataCache, call, cached,
                 videos, batchAt, metaLocals, wrote, before, calls, lockVars>>

\* fetchChannelVideos: the search response arrives
FetchSearch(t) ==
  /\ pc[t] = "search"
  /\ MayRun(t)
  /\ \E ids \in IdSeqs(limits.videos) :
       /\ Len(ids) <= Min(call[t].cap, limits.page)
       /\ netCalls' = [netCalls EXCEPT ![t] = @ + 1]
       /\ videoIds' = [videoIds EXCEPT ![t] = ids]
       \* if (videoIds.length === 0) return []
       /\ pc' = [pc EXCEPT ![t] = IF Len(ids) = 0 THEN "saveSnap" ELSE "details"]
  /\ UNCHANGED <<timeVars, ledgerFile, snapFile, damage, metadataCache, call, cached,
                 pageCount, videos, batchAt, metaLocals, result, wrote, before, calls,
                 lockVars>>

\* one iteration of the for loop of fetchVideoDetails: a detail batch arrives
FetchBatch(t) ==
  /\ pc[t] = "details"
  /\ MayRun(t)
  /\ LET batch == SubSeq(videoIds[t], batchAt[t] + 1,
                         Min(batchAt[t] + limits.page, Len(videoIds[t])))
     IN \E I \in SUBSET (1..Len(batch)) :
          /\ netCalls' = [netCalls EXCEPT ![t] = @ + 1]
          /\ videos' = [videos EXCEPT ![t] = @ \o Pick(batch, I)]
          /\ IF batchAt[t] + limits.page < Len(videoIds[t])
             THEN /\ batchAt' = [batchAt EXCEPT ![t] = @ + limits.page]
                  /\ pc' = pc
             ELSE /\ batchAt' = batchAt
                  /\ pc' = [pc EXCEPT ![t] = "saveSnap"]
  /\ UNCHANGED <<timeVars, ledgerFile, snapFile, damage, metadataCache, call, cached,
                 videoIds, pageCount, metaLocals, result, wrote, before, calls, lockVars>>

NewSnapshotWithoutItems(t) ==
  [lastFetched |-> now, isComplete |-> call[t].isComplete,
   videoCount |-> Len(videos[t]), videos |-> <<>>]

\* the Snapshot a fetch cycle persists (channel.json holds the items alone)
NewSnapshot(t) ==
  IF call[t].op = "playlist"
  THEN [lastFetched |-> now, isComplete |-> call[t].isComplete,
        videoCount |-> Len(videos[t]), videos |-> videos[t]]
  ELSE [lastFetched |-> 0, isComplete |-> FALSE,
        videoCount |-> Len(videos[t]), videos |-> videos[t]]

NewMetadataCountsIds(t) ==
  [lastUpdated |-> now,
   playlists |-> [k \in {call[t].coll} |->
                    [lastFetched |-> now, isComplete |-> call[t].isComplete,
                     videoCount |-> Len(videoIds[t])]],
   channel |-> <<>>]

\* the newMetadata a fetch cycle hands to saveMetadata
NewMetadata(t) ==
  IF call[t].op = "playlist"
  THEN [lastUpdated |-> now,
        playlists |-> [k \in {call[t].coll} |->
                         [lastFetched |-> now, isComplete |-> call[t].isComplete,
                          videoCount |-> Len(videos[t])]],
        channel |-> <<>>]
  ELSE [lastUpdated |-> now,
        playlists |-> NoPlaylists,
        channel |-> <<[lastFetched |-> now, videoCount |-> Len(videos[t])]>>]

SnapshotNotWritten(t) == snapFile[call[t].coll]

\* the file savePlaylistCache / saveChannelCache leaves
SnapshotWritten(t) == OkSnap(NewSnapshot(t))

\* savePlaylistCache(playlistCache) / saveChannelCache(videos)
SaveSnapshot(t) ==
  /\ pc[t] = "saveSnap"
  /\ MayRun(t)
  /\ snapFile' = [snapFile EXCEPT ![call[t].coll] = SnapshotWritten(t)]
  /\ newMetadata' = [newMetadata EXCEPT ![t] = NewMetadata(t)]
  /\ wrote' = [wrote EXCEPT ![t] = @ \cup {"snapshot"}]
  /\ pc' = [pc EXCEPT ![t] = "metaRead"]
  /\ cacheDir' = TRUE
  /\ UNCHANGED <<clockVars, ledgerFile, damage, metadataCache, call, cached, fetchLocals,
                 currentMetadata, result, netCalls, before, calls, lockVars>>

\* saveMetadata: re-read of the Ledger file
SaveMetadataRead(t) ==
  /\ pc[t] = "metaRead"
  /\ MayRun(t)
  /\ currentMetadata' = [currentMetadata EXCEPT ![t] = ReadLedger(ledgerFile, now)]
  /\ pc' = [pc EXCEPT ![t] = "metaWrite"]
  /\ cacheDir' = TRUE
  /\ UNCHANGED <<clockVars, ledgerFile, snapFile, damage, metadataCache, call, cached,
                 fetchLocals, newMetadata, result, netCalls, wrote, before, calls, lockVars>>

\* what the operation returns once saveMetadata is done
FinalResult(t) ==
  IF call[t].op = "mark" THEN Returned(<<>>, "marked") ELSE Returned(videos[t], "fetched")

\* saveMetadata: merge, atomicWriteFile, refresh of the in-process cache; then return
SaveMetadataWrite(t) ==
  /\ pc[t] = "metaWrite"
  /\ MayRun(t)
  /\ LET merged == MergeMetadata(currentMetadata[t], newMetadata[t], now)
     IN /\ ledgerFile' = OkLedger(merged)
        /\ metadataCache' = [metadataCache EXCEPT ![ProcOf(t)] =
                               [valid |-> TRUE, value |-> merged, time |-> now]]
  /\ wrote' = [wrote EXCEPT ![t] = @ \cup {"ledger"}]
  /\ pc' = [pc EXCEPT ![t] = "done"]
  /\ result' = [result EXCEPT ![t] = FinalResult(t)]
  /\ UNCHANGED <<timeVars, snapFile, damage, call, cached, fetchLocals, metaLocals,
                 netCalls, before, calls, lockVars>>

\* markPlaylistComplete(playlistId, isComplete)
MarkPlaylistComplete(t) ==
  \E c \in limits.playlists, flag \in limits.flags :
    LET p == ProcOf(t)
        metadata == getMetadata(p)
    IN /\ Begin(t, c)
       /\ call' = [call EXCEPT ![t] = [op |-> "mark", coll |-> c, forceRefresh |-> FALSE,
                                       isComplete |-> flag, cacheOnly |-> FALSE, cap |-> 1]]
       /\ metadataCache' = [metadataCache EXCEPT ![p] = MetadataCacheAfterGet(p)]
       /\ IF IsMisshapen(metadata)
          THEN /\ newMetadata' = newMetadata
               /\ pc' = [pc EXCEPT ![t] = "done"]
               /\ result' = [result EXCEPT ![t] = Raised("TypeError")]
          ELSE IF c \in DOMAIN metadata.playlists
          THEN /\ newMetadata' = [newMetadata EXCEPT ![t] =
                                    [lastUpdated |-> now,
                                     playlists |-> [k \in {c} |->
                                        [metadata.playlists[c] EXCEPT !.isComplete = flag]],
                                     channel |-> <<>>]]
               /\ pc' = [pc EXCEPT ![t] = "metaRead"]
               /\ result' = [result EXCEPT ![t] = NoResult]
          ELSE /\ newMetadata' = newMetadata
               /\ pc' = [pc EXCEPT ![t] = "done"]
               /\ result' = [result EXCEPT ![t] = Returned(<<>>, "noEntry")]
       /\ cacheDir' = (cacheDir \/ ~MetadataCacheValid(p))
       /\ UNCHANGED <<clockVars, ledgerFile, snapFile, damage, cached, fetchLocals,
                      currentMetadata, lockVars>>

\* the caller takes the value the call returned; the call's locals are gone
CallReturns(t) ==
  /\ pc[t] = "done"
  /\ MayRun(t)
  /\ pc' = [pc EXCEPT ![t] = "idle"]
  /\ call' = [call EXCEPT ![t] = NoCall]
  /\ cached' = [cached EXCEPT ![t] = NoCached]
  /\ videoIds' = [videoIds EXCEPT ![t] = <<>>]
  /\ pageCount' = [pageCount EXCEPT ![t] = 0]
  /\ videos' = [videos EXCEPT ![t] = <<>>]
  /\ batchAt' = [batchAt EXCEPT ![t] = 0]
  /\ newMetadata' = [newMetadata EXCEPT ![t] = EmptyMetadata(0)]
  /\ currentMetadata' = [currentMetadata EXCEPT ![t] = EmptyMetadata(0)]
  /\ result' = [result EXCEPT ![t] = NoResult]
  /\ netCalls' = [netCalls EXCEPT ![t] = 0]
  /\ wrote' = [wrote EXCEPT ![t] = {}]
  /\ before' = [before EXCEPT ![t] = NoBefore]
  /\ prev' = IF limits.history
             THEN [prev EXCEPT ![t] = [call |-> call[t], result |-> result[t],
                                       netCalls |-> netCalls[t]]]
             ELSE prev
  /\ UNCHANGED <<now, ticks, limits, unitVars, cacheDir, ledgerFile, snapFile, damage, metadataCache,
                 calls, lockVars>>

(* ------------------------------ environment ---------------------------- *)
\* time passes
Tick ==
  /\ ticks < limits.ticks
  /\ \E d \in limits.jumps : now' = now + d
  /\ ticks' = ticks + 1
  /\ UNCHANGED <<limits, unitVars, prev, cacheDir, ledgerFile, snapFile, damage, metadataCache, pc, call,
                 cached, fetchLocals, metaLocals, result, netCalls, wrote, before, calls,
                 lockVars>>

\* a Snapshot file is damaged from outside (it no longer parses)
DamageSnapshot ==
  /\ damage < limits.damage
  /\ \E c \in Colls :
       /\ snapFile[c].kind = "ok"
       /\ snapFile' = [snapFile EXCEPT ![c] = CorruptSnap]
  /\ damage' = damage + 1
  /\ UNCHANGED <<timeVars, ledgerFile, metadataCache, pc, call, cached, fetchLocals,
                 metaLocals, result, netCalls, wrote, before, calls, lockVars>>

\* the Ledger file is damaged from outside (it no longer parses)
DamageLedger ==
  /\ damage < limits.damage
  /\ ledgerFile.kind = "ok"
  /\ ledgerFile' = CorruptLedger
  /\ damage' = damage + 1
  /\ UNCHANGED <<timeVars, snapFile, metadataCache, pc, call, cached, fetchLocals,
                 metaLocals, result, netCalls, wrote, before, calls, lockVars>>

\* the Ledger file is replaced from outside by JSON of another shape
DamageLedgerShape ==
  /\ damage < limits.damage
  /\ ledgerFile.kind # "absent"
  /\ ledgerFile' = MisshapenLedger
  /\ damage' = damage + 1
  /\ UNCHANGED <<timeVars, snapFile, metadataCache, pc, call, cached, fetchLocals,
                 metaLocals, result, netCalls, wrote, before, calls, lockVars>>

\* a step of task t
TaskStep(t) ==
  \/ LoadPlaylist(t)
  \/ LoadChannel(t)
  \/ MarkPlaylistComplete(t)
  \/ FetchFails(t)
  \/ FetchPage(t)
  \/ FetchSearch(t)
  \/ FetchBatch(t)
  \/ SaveSnapshot(t)
  \/ SaveMetadataRead(t)
  \/ SaveMetadataWrite(t)
  \/ CallReturns(t)

\* one process that makes its calls one after another, time, and external damage
Next ==
  \/ TaskStep(1)
  \/ Tick
  \/ DamageSnapshot
  \/ DamageLedger

Spec == Init /\ [][Next]_vars

\* several processes that share the cache directory, each making calls
InitProcs == InitWith([SeqLimits EXCEPT !.tasks = Tasks, !.playlists = Playlists,
                                        !.videos = MaxProcVideo, !.calls = MaxProcCalls,
                                        !.ticks = 0, !.jumps = {}, !.damage = 0])

NextProcs == \E t \in Tasks : TaskStep(t)

SpecProcs == InitProcs /\ [][NextProcs]_vars

\* one process whose detail batches hold ScaledPage ids, so that a fetch cycle of a few
\* videos has several listing pages and several detail batches
InitFetch == InitWith([SeqLimits EXCEPT !.videos = MaxFetchVideo, !.calls = MaxFetchCalls,
                                        !.ticks = 0, !.jumps = {}, !.damage = 0,
                                        !.page = ScaledPage, !.history = TRUE])

NextFetch == TaskStep(1)

SpecFetch == InitFetch /\ [][NextFetch]_vars

\* several tasks in one process: they share the in-process copy of the Ledger and
\* give way to each other only where the code awaits
InitShared == InitWith([SeqLimits EXCEPT !.tasks = Tasks, !.playlists = Playlists,
                                         !.videos = MaxProcVideo, !.calls = MaxSharedCalls,
                                         !.ticks = 0, !.jumps = {}, !.damage = 0,
                                         !.shared = TRUE])

NextShared == \E t \in Tasks : TaskStep(t)

SpecShared == InitShared /\ [][NextShared]_vars

\* processes whose playlist loads all pass isComplete=true and forceRefresh=false, and
\* that never unmark a playlist; time may pass beyond the TTL
InitComplete == InitWith([SeqLimits EXCEPT !.tasks = Tasks, !.videos = MaxProcVideo,
                                           !.calls = MaxCompleteCalls,
                                           !.ticks = MaxCompleteTicks,
                                           !.jumps = {CACHE_TTL_MS + 1}, !.damage = 0,
                                           !.force = {FALSE}, !.complete = {TRUE},
                                           !.flags = {TRUE}])

NextComplete ==
  \/ \E t \in Tasks : TaskStep(t)
  \/ Tick

SpecComplete == InitComplete /\ [][NextComplete]_vars

(* ------------------------- Mutual-Exclusion Guard ----------------------- *)
\* parseInt(lockContent, 10) of an empty file is NaN, and every comparison with NaN is
\* false: only a marker whose creation time has been written can be found stale
LockIsStale ==
  lockFile.written /\ now - lockFile.content > LOCK_TIMEOUT_MS

\* saveMetadataAsync(metadata) is called: acquireLock() begins
SaveMetadataAsync(t) ==
  \E k \in limits.playlists \cup {Channel} :
    /\ Begin(t, k)
    /\ call' = [call EXCEPT ![t] = [op |-> "update", coll |-> k, forceRefresh |-> FALSE,
                                    isComplete |-> FALSE, cacheOnly |-> FALSE, cap |-> 1]]
    /\ newMetadata' = [newMetadata EXCEPT ![t] =
         IF k = Channel
         THEN [lastUpdated |-> now, playlists |-> NoPlaylists,
               channel |-> <<[lastFetched |-> now, videoCount |-> 1]>>]
         ELSE [lastUpdated |-> now,
               playlists |-> [x \in {k} |-> [lastFetched |-> now, isComplete |-> FALSE,
                                             videoCount |-> 1]],
               channel |-> <<>>]]
    /\ startTime' = [startTime EXCEPT ![t] = now]
    /\ locked' = [locked EXCEPT ![t] = FALSE]
    /\ pc' = [pc EXCEPT ![t] = "acqLoop"]
    /\ result' = [result EXCEPT ![t] = NoResult]
    /\ cacheDir' = TRUE
    /\ UNCHANGED <<clockVars, ledgerFile, snapFile, damage, metadataCache, cached,
                   fetchLocals, currentMetadata, lockFile, crashed, wakeAt>>

\* a loop test that never lets the loop end
WithinTimeoutForever(t) == TRUE

\* acquireLock: while (Date.now() - startTime < LOCK_TIMEOUT_MS)
WithinTimeout(t) == now - startTime[t] < LOCK_TIMEOUT_MS

\* acquireLock: the loop test, then fs.openSync(lockPath, 'wx')
AcquireTry(t) ==
  /\ pc[t] = "acqLoop"
  /\ MayRun(t)
  /\ IF ~WithinTimeout(t)
     THEN \* return false: saveMetadataAsync warns and returns
          /\ pc' = [pc EXCEPT ![t] = "done"]
          /\ result' = [result EXCEPT ![t] = Returned(<<>>, "skipped")]
          /\ lockFile' = lockFile
     ELSE IF lockFile.kind = "absent"
     THEN /\ lockFile' = NewLockFile(t, now)
          /\ pc' = [pc EXCEPT ![t] = "acqWrite"]
          /\ result' = result
     ELSE \* EEXIST
          /\ lockFile' = lockFile
          /\ pc' = [pc EXCEPT ![t] = "acqRead"]
          /\ result' = result
  /\ UNCHANGED <<timeVars, ledgerFile, snapFile, damage, metadataCache, call, cached,
                 fetchLocals, metaLocals, netCalls, wrote, before, calls, startTime,
                 locked, crashed, wakeAt>>

\* acquireLock: fs.writeSync(fd, String(Date.now())), close, return true.  The write
\* goes to the file the descriptor was opened on, which may have been unlinked since.
AcquireWrite(t) ==
  /\ pc[t] = "acqWrite"
  /\ MayRun(t)
  /\ lockFile' = IF lockFile.kind = "present" /\ lockFile.owner = t /\ ~lockFile.written
                 THEN [lockFile EXCEPT !.written = TRUE, !.content = now]
                 ELSE lockFile
  /\ locked' = [locked EXCEPT ![t] = TRUE]
  /\ pc' = [pc EXCEPT ![t] = "csRead"]
  /\ UNCHANGED <<timeVars, ledgerFile, snapFile, damage, metadataCache, call, cached,
                 fetchLocals, metaLocals, result, netCalls, wrote, before, calls,
                 startTime, crashed, wakeAt>>

\* acquireLock: fs.readFileSync(lockPath), parseInt, the staleness test
AcquireRead(t) ==
  /\ pc[t] = "acqRead"
  /\ MayRun(t)
  /\ pc' = [pc EXCEPT ![t] =
              IF lockFile.kind = "absent" THEN "acqUnlinkCorrupt"   \* ENOENT: the catch
              ELSE IF LockIsStale THEN "acqUnlinkStale"
              ELSE "acqDelay"]
  /\ wakeAt' = [wakeAt EXCEPT ![t] = now + LOCK_POLL_MS]
  /\ UNCHANGED <<timeVars, ledgerFile, snapFile, damage, metadataCache, call, cached,
                 fetchLocals, metaLocals, result, netCalls, wrote, before, calls,
                 lockFile, startTime, locked, crashed>>

\* between a granted acquireLock() and releaseLock()
Holding(t) == pc[t] \in {"csRead", "csWrite", "release"} /\ ~crashed[t]

\* what an unlink of the marker by task t adds to the record of its call: the marker of
\* another process was removed while that process was between acquire and release
UnlinkRecord(t) ==
  IF lockFile.kind = "present" /\ lockFile.owner # t /\ Holding(lockFile.owner)
  THEN {"heldMarker"} ELSE {}

\* acquireLock: fs.unlinkSync(lockPath) of a marker found stale; when the marker is
\* gone the error lands in the catch, which unlinks again
AcquireUnlinkStale(t) ==
  /\ pc[t] = "acqUnlinkStale"
  /\ MayRun(t)
  /\ IF lockFile.kind = "present"
     THEN /\ lockFile' = NoLockFile
          /\ pc' = [pc EXCEPT ![t] = "acqLoop"]
     ELSE /\ lockFile' = lockFile
          /\ pc' = [pc EXCEPT ![t] = "acqUnlinkCorrupt"]
  /\ wrote' = [wrote EXCEPT ![t] = @ \cup UnlinkRecord(t)]
  /\ UNCHANGED <<timeVars, ledgerFile, snapFile, damage, metadataCache, call, cached,
                 fetchLocals, metaLocals, result, netCalls, before, calls,
                 startTime, locked, crashed, wakeAt>>

\* acquireLock: try { fs.unlinkSync(lockPath) } catch {} ; continue
AcquireUnlinkCorrupt(t) ==
  /\ pc[t] = "acqUnlinkCorrupt"
  /\ MayRun(t)
  /\ lockFile' = NoLockFile
  /\ pc' = [pc EXCEPT ![t] = "acqLoop"]
  /\ wrote' = [wrote EXCEPT ![t] = @ \cup UnlinkRecord(t)]
  /\ UNCHANGED <<timeVars, ledgerFile, snapFile, damage, metadataCache, call, cached,
                 fetchLocals, metaLocals, result, netCalls, before, calls,
                 startTime, locked, crashed, wakeAt>>

\* acquireLock: await delay(50) is over
AcquireDelay(t) ==
  /\ pc[t] = "acqDelay"
  /\ MayRun(t)
  /\ now >= wakeAt[t]
  /\ pc' = [pc EXCEPT ![t] = "acqLoop"]
  /\ UNCHANGED <<timeVars, ledgerFile, snapFile, damage, metadataCache, call, cached,
                 fetchLocals, metaLocals, result, netCalls, wrote, before, calls,
                 lockFile, startTime, locked, crashed, wakeAt>>

\* saveMetadataAsync, lock held: re-read of the Ledger file
LockedRead(t) ==
  /\ pc[t] = "csRead"
  /\ MayRun(t)
  /\ currentMetadata' = [currentMetadata EXCEPT ![t] = ReadLedger(ledgerFile, now)]
  /\ pc' = [pc EXCEPT ![t] = "csWrite"]
  /\ cacheDir' = TRUE
  /\ UNCHANGED <<clockVars, ledgerFile, snapFile, damage, metadataCache, call, cached,
                 fetchLocals, newMetadata, result, netCalls, wrote, before, calls, lockVars>>

\* saveMetadataAsync, lock held: merge, atomicWriteFile, refresh of the in-process cache
LockedWrite(t) ==
  /\ pc[t] = "csWrite"
  /\ MayRun(t)
  /\ LET merged == MergeMetadata(currentMetadata[t], newMetadata[t], now)
     IN /\ ledgerFile' = OkLedger(merged)
        /\ metadataCache' = [metadataCache EXCEPT ![ProcOf(t)] =
                               [valid |-> TRUE, value |-> merged, time |-> now]]
  /\ wrote' = [wrote EXCEPT ![t] = @ \cup {"ledger"}]
  /\ pc' = [pc EXCEPT ![t] = "release"]
  /\ UNCHANGED <<timeVars, snapFile, damage, call, cached, fetchLocals, metaLocals,
                 result, netCalls, before, calls, lockVars>>

AfterWriteFailureSkipsRelease(t) == "done"

\* saveMetadataAsync: an error thrown inside the try block passes through the finally
\* block, which calls releaseLock()
AfterWriteFailure(t) == "release"

\* saveMetadataAsync, lock held: atomicWriteFile throws (disk full, directory removed)
LockedWriteFails(t) ==
  /\ pc[t] = "csWrite"
  /\ MayRun(t)
  /\ pc' = [pc EXCEPT ![t] = AfterWriteFailure(t)]
  /\ result' = [result EXCEPT ![t] = Raised("write")]
  /\ UNCHANGED <<timeVars, ledgerFile, snapFile, damage, metadataCache, call, cached,
                 fetchLocals, metaLocals, netCalls, wrote, before, calls, lockVars>>

\* releaseLock(): try { fs.unlinkSync(lockPath) } catch {}
ReleaseLock(t) ==
  /\ pc[t] = "release"
  /\ MayRun(t)
  /\ lockFile' = NoLockFile
  /\ pc' = [pc EXCEPT ![t] = "done"]
  /\ result' = [result EXCEPT ![t] = IF @.kind = "error" THEN @   \* the error goes on
                                     ELSE Returned(<<>>, "updated")]
  /\ UNCHANGED <<timeVars, ledgerFile, snapFile, damage, metadataCache, call, cached,
                 fetchLocals, metaLocals, netCalls, wrote, before, calls, startTime,
                 locked, crashed, wakeAt>>

\* the process dies after it has created the marker (before or after writing its
\* creation time into it) and before it has released it
Crash(t) ==
  /\ pc[t] \in {"acqWrite", "csRead", "csWrite", "release"}
  /\ ~crashed[t]
  /\ \A u \in Tasks : ~crashed[u]
  /\ crashed' = [crashed EXCEPT ![t] = TRUE]
  /\ UNCHANGED <<timeVars, ledgerFile, snapFile, damage, metadataCache, pc, call, cached,
                 fetchLocals, metaLocals, result, netCalls, wrote, before, calls,
                 lockFile, startTime, locked, wakeAt>>

\* a step of task t in a Ledger update under the lock
LockStep(t) ==
  \/ SaveMetadataAsync(t)
  \/ AcquireTry(t)
  \/ AcquireWrite(t)
  \/ AcquireRead(t)
  \/ AcquireUnlinkStale(t)
  \/ AcquireUnlinkCorrupt(t)
  \/ AcquireDelay(t)
  \/ LockedRead(t)
  \/ LockedWrite(t)
  \/ LockedWriteFails(t)
  \/ ReleaseLock(t)
  \/ CallReturns(t)
  \/ Crash(t)

\* processes that update the Ledger through saveMetadataAsync, and time
InitLock == InitWith([SeqLimits EXCEPT !.tasks = Tasks, !.videos = 1,
                                       !.calls = MaxLockCalls, !.ticks = MaxLockTicks,
                                       !.jumps = {LOCK_POLL_MS, LOCK_TIMEOUT_MS + 1},
                                       !.damage = 0])

NextLock ==
  \/ \E t \in Tasks : LockStep(t)
  \/ Tick

SpecLock == InitLock /\ [][NextLock]_vars

\* a step of acquireLock() in task t
AcquireStep(t) ==
  \/ AcquireTry(t)
  \/ AcquireWrite(t)
  \/ AcquireRead(t)
  \/ AcquireUnlinkStale(t)
  \/ AcquireUnlinkCorrupt(t)
  \/ AcquireDelay(t)

\* the same processes when the clock keeps advancing (as far as MaxLockTicks lets it)
\* and a process inside acquireLock() that has not died keeps running; nothing is
\* assumed about a process that holds the marker
SpecLockLive ==
  InitLock /\ [][NextLock]_vars /\ WF_vars(Tick) /\ \A t \in Tasks : WF_vars(AcquireStep(t))

(* ---------------------------- atomicWriteFile --------------------------- *)
\* everything but the clock, the limits, the call counters and the unit models
cacheVars == <<ledgerFile, snapFile, damage, metadataCache, pc, call, cached, fetchLocals,
               metaLocals, result, netCalls, wrote, before, lockVars, cacheDir>>

\* a chunk that was never written: the file has a gap there
Hole == [by |-> 0 - 1, n |-> 0]

\* write(fd, chunk) at offset k - 1 of a file whose content is c
PutAt(c, k, d) ==
  [j \in 1..(IF Len(c) > k THEN Len(c) ELSE k) |->
     IF j = k THEN d ELSE IF j <= Len(c) THEN c[j] ELSE Hole]

\* `${filePath}.tmp.${Date.now()}`
TempPath(t) == t

\* atomicWriteFile begins: tempPath is computed, and writeFileSync opens it with
\* O_CREAT | O_TRUNC: an existing file of that name is emptied, else a file is created
WriteOpen(t) ==
  /\ writer[t].pc = "idle"
  /\ t \in limits.tasks
  /\ TotalCalls < limits.calls
  /\ calls' = [calls EXCEPT ![t] = @ + 1]
  /\ LET name == TempPath(now)
         exists == name \in DOMAIN fsys.temps
         ino == IF exists THEN fsys.temps[name] ELSE Len(fsys.inodes) + 1
     IN /\ fsys' = [fsys EXCEPT
                      !.inodes = IF exists THEN [@ EXCEPT ![ino] = <<>>] ELSE Append(@, <<>>),
                      !.temps = [x \in DOMAIN @ \cup {name} |-> IF x = name THEN ino ELSE @[x]]]
        /\ writer' = [writer EXCEPT ![t] = [pc |-> "write", name |-> name, fd |-> ino,
                                            off |-> 0, data |-> [by |-> t, n |-> calls[t] + 1],
                                            last |-> "none"]]
  /\ UNCHANGED <<now, ticks, limits, retry, prev, warmup, study, cacheVars>>

\* writeFileSync: one write() of the data, at the descriptor's own offset
WriteChunk(t) ==
  /\ writer[t].pc = "write"
  /\ fsys' = [fsys EXCEPT !.inodes[writer[t].fd] = PutAt(@, writer[t].off + 1, writer[t].data)]
  /\ writer' = [writer EXCEPT ![t].off = @ + 1,
                              ![t].pc = IF writer[t].off + 1 = MaxChunks THEN "rename" ELSE @]
  /\ UNCHANGED <<now, ticks, limits, calls, retry, prev, warmup, study, cacheVars>>

\* fs.renameSync(tempPath, filePath): the target name now leads to the temporary's
\* inode and the temporary name is gone; ENOENT when the name is gone already
WriteRename(t) ==
  /\ writer[t].pc = "rename"
  /\ IF writer[t].name \in DOMAIN fsys.temps
     THEN /\ fsys' = [fsys EXCEPT
                        !.target = fsys.temps[writer[t].name],
                        !.temps = [x \in DOMAIN @ \ {writer[t].name} |-> @[x]]]
          /\ writer' = [writer EXCEPT ![t].pc = "idle", ![t].last = "renamed"]
     ELSE /\ fsys' = fsys
          /\ writer' = [writer EXCEPT ![t].pc = "idle", ![t].last = "ENOENT"]
  /\ UNCHANGED <<now, ticks, limits, calls, retry, prev, warmup, study, cacheVars>>

\* a step of an atomicWriteFile call of process t
WriteStep(t) ==
  \/ WriteOpen(t)
  \/ WriteChunk(t)
  \/ WriteRename(t)

\* processes that write one file of the cache directory, and the clock
InitWrite == InitWith([SeqLimits EXCEPT !.tasks = Tasks, !.calls = MaxWrites,
                                        !.ticks = MaxWriteTicks, !.jumps = {1},
                                        !.damage = 0])

NextWrite ==
  \/ \E t \in Tasks : WriteStep(t)
  \/ Tick

SpecWrite == InitWrite /\ [][NextWrite]_vars

(* ----------------------------- fetchWithRetry --------------------------- *)
\* what one fetch(url) comes to: a success response, a 429 response, another
\* response that is not ok, or a rejected fetch
Responses == {"ok", "rateLimited", "httpError", "networkError"}
Failures == {"httpError", "networkError"}

\* the Retry-After header of a 429 response, in seconds; -1: no header
RetryAfters == {0 - 1, 0, 2}

Pow2(n) ==
  LET F[k \in 0..n] == IF k = 0 THEN 1 ELSE 2 * F[k - 1]
  IN F[n]

\* (2 ** i) * 1000
Backoff(i) == Pow2(i) * BACKOFF_BASE_MS

NextIndexFreeOnRateLimit(i, resp) == IF resp = "rateLimited" THEN i ELSE i + 1

\* the loop index after an attempt: i++ on every path that stays in the loop
NextIndex(i, resp) == i + 1

\* fetchWithRetry(url) is called
RetryCall ==
  /\ retry.pc \in {"idle", "returned", "raised"}
  /\ TotalCalls < limits.calls
  /\ calls' = [calls EXCEPT ![1] = @ + 1]
  /\ retry' = [NoRetry EXCEPT !.pc = "loop"]
  /\ UNCHANGED <<now, ticks, limits, fsys, writer, prev, warmup, study, cacheVars>>

\* one pass of the for loop: await fetch(url) and what follows from the response
RetryFetch ==
  /\ retry.pc = "loop"
  /\ retry.i < MAX_RETRIES
  /\ \E resp \in Responses, retryAfter \in RetryAfters :
       /\ resp # "rateLimited" => retryAfter = 0 - 1
       /\ retry' =
            [retry EXCEPT
               !.attempts = @ + 1,
               !.responses = Append(@, resp),
               !.lastError = IF resp \in Failures
                             THEN [kind |-> resp, at |-> retry.attempts + 1] ELSE @,
               !.waitTime = IF resp = "rateLimited"
                            THEN (IF retryAfter >= 0 THEN retryAfter * 1000
                                  ELSE Backoff(retry.i))
                            ELSE IF resp \in Failures /\ retry.i < MAX_RETRIES - 1
                            THEN Backoff(retry.i) ELSE 0,
               !.pc = IF resp = "ok" THEN "returned"
                      ELSE IF resp = "rateLimited" \/ retry.i < MAX_RETRIES - 1
                      THEN "delay" ELSE "loop",
               !.i = IF resp \in Failures /\ ~(retry.i < MAX_RETRIES - 1)
                     THEN NextIndex(@, resp) ELSE @]
  /\ UNCHANGED <<now, ticks, limits, calls, fsys, writer, prev, warmup, study, cacheVars>>

\* await delay(waitTime) is over; the loop goes on with the next index
RetryDelay ==
  /\ retry.pc = "delay"
  /\ retry' = [retry EXCEPT !.pc = "loop", !.waitTime = 0,
                            !.i = NextIndex(@, retry.responses[Len(retry.responses)])]
  /\ UNCHANGED <<now, ticks, limits, calls, fsys, writer, prev, warmup, study, cacheVars>>

\* throw lastError || new Error('Failed after all retries')
RetryRaise ==
  /\ retry.pc = "loop"
  /\ ~(retry.i < MAX_RETRIES)
  /\ retry' = [retry EXCEPT
                 !.pc = "raised",
                 !.raised = IF retry.lastError # NoError THEN retry.lastError
                            ELSE [kind |-> "failedAfterAllRetries", at |-> 0]]
  /\ UNCHANGED <<now, ticks, limits, calls, fsys, writer, prev, warmup, study, cacheVars>>

RetryStep ==
  \/ RetryFetch
  \/ RetryDelay
  \/ RetryRaise

InitRetry == InitWith([SeqLimits EXCEPT !.calls = MaxRetryCalls, !.ticks = 0, !.jumps = {},
                                        !.damage = 0])

NextRetry ==
  \/ RetryCall
  \/ RetryStep

\* the responses arrive and the timers of delay() fire
SpecRetry == InitRetry /\ [][NextRetry]_vars /\ WF_vars(RetryStep)

(* --------------------------- cache management -------------------------- *)
\* playlists.reduce((sum, p) => sum + p.videoCount, 0)
SumVideoCount(pl) ==
  LET S[ks \in SUBSET DOMAIN pl] ==
        IF ks = {} THEN 0
        ELSE LET k == CHOOSE x \in ks : TRUE IN pl[k].videoCount + S[ks \ {k}]
  IN S[DOMAIN pl]

\* the object getCacheStats returns, as <<totalPlaylists, completePlaylists, totalVideos>>
StatsOf(metadata) ==
  <<Cardinality(DOMAIN metadata.playlists),
    Cardinality({k \in DOMAIN metadata.playlists : metadata.playlists[k].isComplete}),
    SumVideoCount(metadata.playlists)
      + (IF metadata.channel # <<>> THEN metadata.channel[1].videoCount ELSE 0)>>

\* a synchronous exported function is called by task t and has returned
ManageCall(t, op, res) ==
  /\ Begin(t, Channel)
  /\ call' = [call EXCEPT ![t] = [NoCall EXCEPT !.op = op]]
  /\ pc' = [pc EXCEPT ![t] = "done"]
  /\ result' = [result EXCEPT ![t] = res]
  /\ UNCHANGED <<clockVars, damage, cached, fetchLocals, metaLocals, startTime, locked,
                 crashed, wakeAt>>

\* getCacheStats()
GetCacheStats(t) ==
  LET p == ProcOf(t)
      metadata == getMetadata(p)
  IN /\ ManageCall(t, "stats", IF IsMisshapen(metadata)
                               THEN Raised("TypeError")   \* Object.values(undefined)
                               ELSE Returned(StatsOf(metadata), "stats"))
     /\ metadataCache' = [metadataCache EXCEPT ![p] = MetadataCacheAfterGet(p)]
     /\ cacheDir' = (cacheDir \/ ~MetadataCacheValid(p))
     /\ UNCHANGED <<ledgerFile, snapFile, lockFile>>

\* isCacheReady(): false without metadata.json, else whether the Ledger has an entry
IsCacheReady(t) ==
  LET p == ProcOf(t)
      metadata == getMetadata(p)
  IN IF ledgerFile.kind = "absent"
     THEN /\ ManageCall(t, "ready", Returned(<<>>, "notReady"))
          /\ UNCHANGED <<ledgerFile, snapFile, lockFile, metadataCache, cacheDir>>
     ELSE /\ ManageCall(t, "ready",
                        Returned(<<>>, IF IsMisshapen(metadata)
                                       THEN "notReady"    \* the TypeError is caught
                                       ELSE IF DOMAIN metadata.playlists # {}
                                               \/ metadata.channel # <<>>
                                       THEN "ready" ELSE "notReady"))
          /\ metadataCache' = [metadataCache EXCEPT ![p] = MetadataCacheAfterGet(p)]
          /\ UNCHANGED <<ledgerFile, snapFile, lockFile, cacheDir>>

\* what validateCache finds missing, as <<number of playlists, channel (1 or 0)>>
MissingOf(metadata) ==
  <<Cardinality({k \in DOMAIN metadata.playlists : snapFile[k].kind = "absent"}),
    IF metadata.channel # <<>> /\ snapFile[Channel].kind = "absent" THEN 1 ELSE 0>>

\* validateCache()
ValidateCache(t) ==
  LET p == ProcOf(t)
      metadata == getMetadata(p)
      missing == MissingOf(metadata)
  IN /\ ManageCall(t, "validate",
                   IF IsMisshapen(metadata)
                   THEN Raised("TypeError")               \* Object.keys(undefined)
                   ELSE Returned(missing, IF missing = <<0, 0>> THEN "valid" ELSE "invalid"))
     /\ metadataCache' = [metadataCache EXCEPT ![p] = MetadataCacheAfterGet(p)]
     /\ cacheDir' = TRUE
     /\ UNCHANGED <<ledgerFile, snapFile, lockFile>>

\* fs.rmSync(cacheDir, { recursive: true }): every file of the cache is gone
NoSnapFiles == [c \in Colls |-> AbsentSnap]

\* clearCache(): the directory is removed and the in-memory copy dropped, both only
\* when the directory exists
ClearCache(t) ==
  LET p == ProcOf(t)
  IN /\ ManageCall(t, "clear", Returned(<<>>, IF cacheDir THEN "cleared" ELSE "nothing"))
     /\ IF cacheDir
        THEN /\ ledgerFile' = AbsentLedger
             /\ snapFile' = NoSnapFiles
             /\ lockFile' = NoLockFile
             /\ cacheDir' = FALSE
             /\ metadataCache' = [metadataCache EXCEPT ![p] = NoMetadataCache]
        ELSE UNCHANGED <<ledgerFile, snapFile, lockFile, cacheDir, metadataCache>>

\* the cache directory is removed from outside (rm -rf, or clearCache() in another
\* process) between two operations
RemoveCacheDir ==
  /\ damage < limits.damage
  /\ cacheDir
  /\ \A t \in Tasks : pc[t] \in {"idle", "done"}
  /\ ledgerFile' = AbsentLedger
  /\ snapFile' = NoSnapFiles
  /\ lockFile' = NoLockFile
  /\ cacheDir' = FALSE
  /\ damage' = damage + 1
  /\ UNCHANGED <<clockVars, metadataCache, pc, call, cached, fetchLocals, metaLocals,
                 result, netCalls, wrote, before, calls, startTime, locked, crashed, wakeAt>>

\* a management call of task t
ManageStep(t) ==
  \/ GetCacheStats(t)
  \/ IsCacheReady(t)
  \/ ValidateCache(t)
  \/ ClearCache(t)

\* one process that loads, marks, inspects and clears the cache, whose directory may
\* also be removed from outside
InitManage == InitWith([SeqLimits EXCEPT !.videos = 1, !.calls = MaxManageCalls,
                                         !.ticks = 0, !.jumps = {},
                                         !.damage = MaxManageRemovals,
                                         !.force = {FALSE}, !.complete = {FALSE},
                                         !.history = TRUE])

NextManage ==
  \/ TaskStep(1)
  \/ ManageStep(1)
  \/ RemoveCacheDir

SpecManage == InitManage /\ [][NextManage]_vars

\* one process that loads, marks and inspects a cache whose files are damaged from
\* outside (made unparseable, or replaced by JSON of another shape), and time enough
\* for the in-memory copy of the Ledger to expire
InitCorrupt == InitWith([SeqLimits EXCEPT !.videos = 1, !.calls = MaxCorruptCalls,
                                          !.ticks = MaxCorruptTicks,
                                          !.jumps = {METADATA_CACHE_TTL_MS},
                                          !.damage = MaxCorruptDamage,
                                          !.force = {FALSE}, !.complete = {FALSE}])

NextCorrupt ==
  \/ TaskStep(1)
  \/ ManageStep(1)
  \/ DamageSnapshot
  \/ DamageLedger
  \/ DamageLedgerShape
  \/ Tick

SpecCorrupt == InitCorrupt /\ [][NextCorrupt]_vars

(* ------------------------ cache-manager: warmupCache -------------------- *)
\* the channel first, then the configured playlists in the order of the configuration
WarmupOrder == <<Channel, "A", "B">>

\* warmupCache(forceRefresh) is called ('warmup' or 'refresh' on the command line)
WarmupCache(t) ==
  \E forceRefresh \in BOOLEAN :
    /\ warmup.stage = "none"
    /\ pc[t] = "idle"
    /\ warmup' = [NoWarmup EXCEPT !.stage = "running", !.forceRefresh = forceRefresh]
    /\ UNCHANGED <<now, ticks, limits, fsys, writer, retry, prev, study, calls, cacheVars>>

\* the next await loadChannelWithCache(...) / await loadPlaylistWithCache(...) of the run
WarmupLoad(t) ==
  /\ warmup.stage = "running"
  /\ warmup.taken = calls[t]
  /\ calls[t] < Len(WarmupOrder)
  /\ LET c == WarmupOrder[calls[t] + 1]
     IN IF c = Channel
        THEN LoadStart(t, "channel", Channel, warmup.forceRefresh, FALSE, FALSE, limits.videos)
        ELSE \E isComplete \in BOOLEAN :
               LoadStart(t, "playlist", c, warmup.forceRefresh, isComplete, FALSE,
                         limits.videos)

\* the await is over: the try block counts the videos, or the catch block the error
WarmupTake(t) ==
  /\ warmup.stage = "running"
  /\ pc[t] = "done"
  /\ warmup.taken < calls[t]
  /\ warmup' = [warmup EXCEPT
       !.taken = @ + 1,
       !.order = Append(@, call[t].coll),
       !.successCount = IF result[t].kind = "value" /\ call[t].op = "playlist"
                        THEN @ + 1 ELSE @,
       !.errorCount = IF result[t].kind = "error" THEN @ + 1 ELSE @,
       !.failedCycles = IF result[t].via = "failed" THEN @ + 1 ELSE @]
  /\ UNCHANGED <<now, ticks, limits, fsys, writer, retry, prev, study, calls, cacheVars>>

\* the loop goes on once the result is taken
WarmupReturn(t) ==
  /\ warmup.taken = calls[t]
  /\ CallReturns(t)

\* after the last playlist: the summary is printed
WarmupSummary(t) ==
  /\ warmup.stage = "running"
  /\ pc[t] = "idle"
  /\ warmup.taken = Len(WarmupOrder)
  /\ warmup' = [warmup EXCEPT !.stage = "summary"]
  /\ UNCHANGED <<now, ticks, limits, fsys, writer, retry, prev, study, calls, cacheVars>>

\* a step of the fetch cycle of a load in progress
FetchStep(t) ==
  \/ FetchFails(t)
  \/ FetchPage(t)
  \/ FetchSearch(t)
  \/ FetchBatch(t)
  \/ SaveSnapshot(t)
  \/ SaveMetadataRead(t)
  \/ SaveMetadataWrite(t)

WarmupStep(t) ==
  \/ WarmupCache(t)
  \/ WarmupLoad(t)
  \/ WarmupTake(t)
  \/ WarmupReturn(t)
  \/ WarmupSummary(t)
  \/ FetchStep(t)

\* one run of warmupCache on an empty cache, every request of which may fail
InitWarmup == InitWith([SeqLimits EXCEPT !.playlists = Playlists, !.videos = MaxWarmupVideo,
                                         !.calls = Len(WarmupOrder), !.ticks = 0,
                                         !.jumps = {}, !.damage = 0])

NextWarmup == WarmupStep(1)

SpecWarmup == InitWarmup /\ [][NextWarmup]_vars

(* --------------------------- processes that die ------------------------ *)
\* the process of task t dies in the middle of an operation
ProcessDies(t) ==
  /\ pc[t] \notin {"idle", "done"}
  /\ MayRun(t)
  /\ crashed' = [crashed EXCEPT ![t] = TRUE]
  /\ UNCHANGED <<timeVars, ledgerFile, snapFile, damage, metadataCache, pc, call, cached,
                 fetchLocals, metaLocals, result, netCalls, wrote, before, calls,
                 lockFile, startTime, locked, wakeAt>>

\* processes that load, mark complete and validate, any of which may die at any step;
\* no file is removed
InitCrash == InitWith([SeqLimits EXCEPT !.tasks = Tasks, !.videos = 1,
                                        !.calls = MaxCrashCalls, !.ticks = 0,
                                        !.jumps = {}, !.damage = 0,
                                        !.complete = {FALSE}])

NextCrash ==
  \E t \in Tasks :
    \/ TaskStep(t)
    \/ ValidateCache(t)
    \/ ProcessDies(t)

SpecCrash == InitCrash /\ [][NextCrash]_vars

(* ------------------------ studyStore: sessions and streak --------------- *)
\* loadGlobalData in a browser: the defaults overlaid with the stored item, a fresh
\* object at every call
LoadGlobalData == IF study.stored = <<>> THEN DefaultGlobalData ELSE study.stored[1]

\* getTodayDate() and the local 'yesterday' of updateStudyStreak
Yesterday == study.today - 1

Includes(dates, d) == \E i \in 1..Len(dates) : dates[i] = d

\* updateStudyStreak after its early return: the streak it saves
NewStreak(streak) ==
  LET current == IF streak.lastStudyDate = Yesterday
                 THEN streak.currentStreak + 1
                 ELSE 1
  IN [currentStreak |-> current,
      longestStreak |-> IF current > streak.longestStreak THEN current
                        ELSE streak.longestStreak,
      lastStudyDate |-> study.today,
      studyDates |-> IF Includes(streak.studyDates, study.today) THEN streak.studyDates
                     ELSE Append(streak.studyDates, study.today)]

\* saveGlobalData(data) in a browser: the item is replaced whole
SaveGlobalData(stored, data) == <<data>>

\* what localStorage holds after a call of updateStudyStreak()
StoredAfterStreak ==
  LET globalData == LoadGlobalData
  IN IF globalData.streak.lastStudyDate = study.today
     THEN study.stored
     ELSE SaveGlobalData(study.stored, [globalData EXCEPT !.streak = NewStreak(@)])

\* updateStudyStreak()
UpdateStudyStreak ==
  /\ study' = [study EXCEPT !.stored = StoredAfterStreak]
  /\ UNCHANGED <<now, ticks, limits, fsys, writer, retry, prev, warmup, calls, cacheVars>>

\* startStudySession(videoId, ...): the copy loaded first gets the session, the streak
\* is updated through a copy of its own, and the first copy is saved last
StartStudySession ==
  /\ study.ids < MaxSessions
  /\ LET globalData == LoadGlobalData
         sessionId == study.ids + 1
         withSession == [globalData EXCEPT !.sessions = Append(@, sessionId)]
     IN study' = [study EXCEPT !.stored = SaveGlobalData(StoredAfterStreak, withSession),
                               !.ids = sessionId]
  /\ UNCHANGED <<now, ticks, limits, fsys, writer, retry, prev, warmup, calls, cacheVars>>

\* midnight (UTC) passes, once or several times
NextDay ==
  \E d \in 1..MaxDayJump :
    /\ study.today + d <= MaxDay
    /\ study' = [study EXCEPT !.today = @ + d]
    /\ UNCHANGED <<now, ticks, limits, fsys, writer, retry, prev, warmup, calls, cacheVars>>

InitStudy == InitWith(SeqLimits)

NextStudy == UpdateStudyStreak \/ StartStudySession \/ NextDay

SpecStudy == InitStudy /\ [][NextStudy]_vars

(* ------------------------------- claims -------------------------------- *)
IsLoad(t) == call[t].op \in {"playlist", "channel"}

\* the items of the Snapshot that existed when the call began (none: the empty sequence)
BeforeItems(t) == IF before[t].snap.kind = "ok" THEN before[t].snap.data.videos ELSE <<>>

\* the call has gone past its cache decision into the fetch cycle
InFetchCycle(t) ==
  \/ pc[t] \in {"list", "search", "details", "saveSnap", "metaRead", "metaWrite"}
  \/ netCalls[t] > 0

\* C1: a load called with cacheOnly=true issues no network request, whatever the cache
\* state and the other options; when no readable Snapshot exists it returns the empty
\* sequence.
C1_CacheOnlyNeverFetches ==
  \A t \in Tasks :
    (IsLoad(t) /\ call[t].cacheOnly) =>
      /\ pc[t] = "done"
      /\ ~InFetchCycle(t)
      /\ result[t].kind = "value"
      /\ (before[t].snap.kind # "ok" => result[t].items = <<>>)

\* a cache-only call with forceRefresh=true on an empty cache has returned the empty sequence
C1_Witness ==
  \E t \in Tasks :
    /\ pc[t] = "done" /\ call[t].op = "playlist"
    /\ call[t].cacheOnly /\ call[t].forceRefresh
    /\ before[t].snap.kind = "absent" /\ before[t].ledger.kind = "absent"
    /\ result[t] = Returned(<<>>, "empty")

\* C2: when the fetch cycle of a load fails at any stage, the call returns exactly the
\* items of the Snapshot that existed before the call (also when it is older than the
\* TTL), the empty sequence when there was none, and never an error.
C2_StaleFallbackOnFailure ==
  \A t \in Tasks :
    (IsLoad(t) /\ result[t].via = "failed") =>
      /\ pc[t] = "done"
      /\ result[t].kind = "value"
      /\ result[t].items = BeforeItems(t)

\* a fetch cycle has failed for a playlist whose Snapshot was older than the TTL and
\* non-empty
C2_Witness ==
  \E t \in Tasks :
    /\ pc[t] = "done" /\ call[t].op = "playlist" /\ result[t].via = "failed"
    /\ ~call[t].forceRefresh
    /\ before[t].snap.kind = "ok"
    /\ before[t].snap.data.videos # <<>>
    /\ now - before[t].snap.data.lastFetched > CACHE_TTL_MS
    /\ result[t].items = before[t].snap.data.videos

\* the Ledger entry of the call's playlist is marked complete in the Ledger file as it
\* was when the call began
DiskEntryComplete(t) ==
  /\ EntryOf(before[t].ledger, call[t].coll) # <<>>
  /\ EntryOf(before[t].ledger, call[t].coll)[1].isComplete

\* the Ledger entry of the call's playlist is marked complete in the Ledger the call
\* got from getMetadata()
ReadEntryComplete(t) ==
  /\ call[t].coll \in DOMAIN before[t].meta.playlists
  /\ before[t].meta.playlists[call[t].coll].isComplete

\* C7 as stated: a playlist load with forceRefresh=false of a collection whose Ledger
\* entry is marked complete issues no network request.
C7_CompleteNeverFetches ==
  \A t \in Tasks :
    (call[t].op = "playlist" /\ ~call[t].forceRefresh /\ DiskEntryComplete(t)) =>
      ~InFetchCycle(t)

\* C7 amended: a playlist load with forceRefresh=false issues no network request when
\* a readable Snapshot exists and the Ledger entry the call reads is marked complete,
\* however old the entry's lastFetched is; it returns the Snapshot's items.
C7_CompleteWithSnapshotNeverFetches ==
  \A t \in Tasks :
    (/\ call[t].op = "playlist" /\ ~call[t].forceRefresh
     /\ before[t].snap.kind = "ok" /\ ReadEntryComplete(t)) =>
      /\ pc[t] = "done"
      /\ ~InFetchCycle(t)
      /\ result[t] = Returned(BeforeItems(t), "cached")

\* a complete entry older than the TTL was served from the cache
C7_Witness ==
  \E t \in Tasks :
    /\ pc[t] = "done" /\ call[t].op = "playlist"
    /\ ~call[t].forceRefresh /\ ~call[t].cacheOnly
    /\ before[t].snap.kind = "ok" /\ ReadEntryComplete(t)
    /\ now - before[t].meta.playlists[call[t].coll].lastFetched > CACHE_TTL_MS
    /\ result[t].via = "cached"

\* the fetch cycle of a playlist load has finished listing and found zero ids
ListedZeroIds(t) ==
  /\ call[t].op = "playlist"
  /\ pc[t] \notin {"idle", "list"}
  /\ netCalls[t] > 0
  /\ videoIds[t] = <<>>
  /\ result[t].via # "failed"

\* C9: when the refetch cycle of a playlist load lists zero ids, the call writes
\* neither the Snapshot nor the Ledger and returns the previous Snapshot's items (the
\* empty sequence if there was none).
C9_ZeroIdsPreserveSnapshot ==
  \A t \in Tasks :
    ListedZeroIds(t) =>
      /\ pc[t] = "done"
      /\ wrote[t] = {}
      /\ result[t] = Returned(BeforeItems(t), "noIds")

\* a refetch over a non-empty Snapshot listed zero ids and the Snapshot file is as before
C9_Witness ==
  \E t \in Tasks :
    /\ pc[t] = "done" /\ ListedZeroIds(t)
    /\ before[t].snap.kind = "ok" /\ before[t].snap.data.videos # <<>>
    /\ snapFile[call[t].coll] = before[t].snap
    /\ ledgerFile = before[t].ledger
    /\ result[t].items = before[t].snap.data.videos

\* C10: no load whose network requests all succeed replaces a non-empty Snapshot by
\* an empty one.
C10_EmptyResponseNeverDestroys ==
  \A t \in Tasks :
    (/\ IsLoad(t) /\ "snapshot" \in wrote[t]
     /\ before[t].snap.kind = "ok" /\ before[t].snap.data.videos # <<>>) =>
      videos[t] # <<>>
\* the writer of the Ledger file in a step, if the step writes it
WritesLedger(t) == pc[t] \in {"metaWrite", "csWrite"} /\ pc'[t] # pc[t]

\* C3: no Ledger update removes or reverts the Ledger entry of a collection it did
\* not name, under every interleaving of updates by processes sharing the directory.
C3_UpdatesKeepOtherEntries ==
  [][\A t \in Tasks :
       WritesLedger(t) =>
         \A k \in Colls \ Named(newMetadata[t]) :
           EntryOf(ledgerFile', k) = EntryOf(ledgerFile, k)]_vars

\* C4: at most one process is between a granted acquire() and its release().
C4_MutualExclusion ==
  \A t, u \in Tasks : (Holding(t) /\ Holding(u)) => t = u

\* the marker on disk is the one task t created
HoldsMarker(t) == lockFile.kind = "present" /\ lockFile.owner = t

\* C5: every write of the Ledger file is made while the writing process holds the
\* lock marker.
C5_LedgerWrittenUnderLock ==
  [][\A t \in Tasks : WritesLedger(t) => HoldsMarker(t)]_vars

\* the marker on disk was left by a process that crashed, and is older than the timeout
AbandonedMarker ==
  /\ lockFile.kind = "present"
  /\ crashed[lockFile.owner]
  /\ now - lockFile.created > LOCK_TIMEOUT_MS

\* C6: a marker left by a crashed holder is reclaimed once it is older than the
\* timeout: an acquire() by another process that examines such a marker goes on to
\* remove it, whether or not the holder had written its creation time into it.
C6_AbandonedMarkerReclaimed ==
  [][\A t \in Tasks :
       (pc[t] = "acqRead" /\ pc'[t] # "acqRead" /\ AbandonedMarker) =>
         pc'[t] \in {"acqUnlinkStale", "acqUnlinkCorrupt"}]_vars

\* when the call began, a fetch cycle of a load that passed isComplete=true had
\* persisted the Snapshot and finished its Ledger update
FoundCompleteSnapshot(t) ==
  /\ call[t].op = "playlist"
  /\ before[t].snap.kind = "ok"
  /\ before[t].snap.data.isComplete
  /\ DiskEntryComplete(t)

OneProcessOnly == \A t, u \in Tasks : (calls[t] > 0 /\ calls[u] > 0) => t = u

TargetContent == fsys.inodes[fsys.target]

\* atomicWriteFile calls that have opened their temporary file and not yet renamed it
InFlight(t) == writer[t].pc \in {"write", "rename"}

\* C11: a reader of the target sees the whole previous content or the whole content
\* of one write, never a partial or mixed file, and no two writes in flight use the
\* same temporary file.
C11_WritesAreAtomic ==
  /\ \E d \in {OldData} \cup {writer[t].data : t \in Tasks}
              \cup [by : Tasks, n : 1..(MaxWrites + 1)] :
       TargetContent = WholeFile(d)
  /\ \A t, u \in Tasks :
       (InFlight(t) /\ InFlight(u) /\ writer[t].name = writer[u].name) => t = u

\* C12: a load whose fetch cycle failed at a listing page, at the search or at a detail
\* batch has returned without writing: the Snapshot file and the Ledger entry of its
\* collection are what they were when the call began, also when earlier batches of the
\* cycle had succeeded.
C12_FailedCycleWritesNothing ==
  \A t \in Tasks :
    (IsLoad(t) /\ result[t].via = "failed") =>
      /\ pc[t] = "done"
      /\ wrote[t] = {}
      /\ snapFile[call[t].coll] = before[t].snap
      /\ EntryOf(ledgerFile, call[t].coll) = EntryOf(before[t].ledger, call[t].coll)

\* the second detail batch failed after the first had delivered items, with a Snapshot
\* in place
C12_Witness ==
  \E t \in Tasks :
    /\ IsLoad(t) /\ pc[t] = "done" /\ result[t].via = "failed"
    /\ batchAt[t] > 0 /\ Len(videos[t]) > 0
    /\ before[t].snap.kind = "ok"
    /\ snapFile[call[t].coll] = before[t].snap

\* task t is in (or has finished) its second call, and both calls are loads of the same
\* playlist with the same options, forceRefresh=false and cacheOnly=false, the first one
\* on the empty cache
SecondOfTwoLoads(t) ==
  /\ calls[t] = 2 /\ TotalCalls = 2 /\ pc[t] # "idle"
  /\ call[t].op = "playlist" /\ ~call[t].forceRefresh /\ ~call[t].cacheOnly
  /\ prev[t].call = call[t]

\* C13 as stated: of two successive loads of a collection with forceRefresh=false on a
\* fresh cache, the second issues no network request and returns the items the first
\* returned (the first load's requests all succeed).
C13_SecondLoadFromCache ==
  \A t \in Tasks :
    (SecondOfTwoLoads(t) /\ prev[t].result.via # "failed") =>
      /\ pc[t] = "done"
      /\ netCalls[t] = 0
      /\ result[t].items = prev[t].result.items

\* C13 amended: the same when the fetch cycle of the first load was completed, that is,
\* it listed at least one id, no request failed, and the Snapshot was persisted.
C13_SecondLoadFromCacheAfterSuccess ==
  \A t \in Tasks :
    (SecondOfTwoLoads(t) /\ prev[t].result.via = "fetched") =>
      /\ pc[t] = "done"
      /\ netCalls[t] = 0
      /\ result[t] = Returned(prev[t].result.items, "cached")

\* the first load fetched items over the network and the second was served from the cache
C13_Witness ==
  \E t \in Tasks :
    /\ SecondOfTwoLoads(t) /\ prev[t].result.via = "fetched"
    /\ prev[t].netCalls > 1 /\ Len(prev[t].result.items) > 0
    /\ pc[t] = "done" /\ result[t] = Returned(prev[t].result.items, "cached")

IsPrefix(a, b) == Len(a) <= Len(b) /\ SubSeq(b, 1, Len(a)) = a

\* the stages of a playlist fetch cycle after fetchPlaylistItems has returned
AfterList == {"details", "saveSnap", "metaRead", "metaWrite"}

\* a further listing page is requested only while fewer than cap ids are accumulated,
\* and details are requested (and items collected) for at most cap ids
CapRespected ==
  \A t \in Tasks :
    call[t].op = "playlist" =>
      /\ (pc[t] = "list" /\ pageCount[t] > 0) => Len(videoIds[t]) < call[t].cap
      /\ pc[t] \in AfterList =>
           /\ Len(videoIds[t]) <= call[t].cap
           /\ Len(videos[t]) <= call[t].cap

\* what fetchPlaylistItems returns is the accumulated listing cut after cap ids: the
\* first ids in source order
ListingReturnsFirstIds ==
  \A t \in Tasks :
    (pc[t] = "list" /\ pc'[t] \in AfterList \cup {"done"} /\ result'[t].via # "failed") =>
      /\ Len(videoIds'[t]) <= call[t].cap
      /\ IsPrefix(videoIds[t], videoIds'[t]) \/ IsPrefix(videoIds'[t], videoIds[t])
      /\ Len(videoIds'[t]) < call[t].cap => IsPrefix(videoIds[t], videoIds'[t])

\* C14: fetchPlaylistItems returns at most cap ids, the first in source order, requests
\* no listing page once cap ids are accumulated, and the fetch cycle requests details
\* for at most cap ids.
C14_CapBeforeBatching == []CapRespected /\ [][ListingReturnsFirstIds]_vars

\* a listing of two pages reached the cap and its ids are requested in a second batch
C14_Witness ==
  \E t \in Tasks :
    /\ call[t].op = "playlist" /\ pc[t] = "details"
    /\ pageCount[t] = 2 /\ Len(videoIds[t]) = call[t].cap /\ batchAt[t] > 0

\* the failure recorded last among the responses so far, if any
LastFailure(rs) ==
  LET F[k \in 0..Len(rs)] ==
        IF k = 0 THEN NoError
        ELSE IF rs[k] \in Failures THEN [kind |-> rs[k], at |-> k] ELSE F[k - 1]
  IN F[Len(rs)]

\* at most MAX_RETRIES attempts whatever the responses; a value is returned only for a
\* success response; an error is raised only after MAX_RETRIES attempts without success
RetryBounded ==
  /\ retry.attempts <= MAX_RETRIES
  /\ retry.attempts = Len(retry.responses)
  /\ retry.pc = "returned" =>
       /\ retry.responses[Len(retry.responses)] = "ok"
       /\ retry.raised = NoError
  /\ retry.pc = "raised" =>
       /\ retry.attempts = MAX_RETRIES
       /\ \A k \in DOMAIN retry.responses : retry.responses[k] # "ok"
       /\ retry.raised # NoError
       /\ LastFailure(retry.responses) # NoError => retry.raised = LastFailure(retry.responses)

C16_CacheOnlyWinsOverForce ==
  \A t \in Tasks :
    (call[t].op = "playlist" /\ call[t].cacheOnly /\ pc[t] = "done") =>
      result[t].items = BeforeItems(t)

\* the condition under which, as stated, a playlist load with these options attempts a
\* fetch, given the Snapshot and the Ledger the call has read and the time of the call
StatedFetch(opts, snap, meta, time) ==
  /\ ~opts.cacheOnly
  /\ \/ opts.forceRefresh
     \/ snap.kind # "ok"
     \/ /\ opts.coll \in DOMAIN meta.playlists
        /\ ~meta.playlists[opts.coll].isComplete
        /\ time - meta.playlists[opts.coll].lastFetched > CACHE_TTL_MS

\* C17: a playlist load goes to the network exactly when cacheOnly is false and
\* (forceRefresh is true, or no readable Snapshot exists, or the Ledger entry is not
\* complete and older than the TTL); in every other case it returns the Snapshot's
\* items with no network request.
C17_FetchExactlyWhenStated ==
  [][\A t \in Tasks :
       (pc[t] = "idle" /\ pc'[t] # "idle" /\ call'[t].op = "playlist") =>
         IF StatedFetch(call'[t], before'[t].snap, before'[t].meta, now)
         THEN pc'[t] = "list"
         ELSE /\ pc'[t] = "done"
              /\ result'[t].items = (IF before'[t].snap.kind = "ok"
                                     THEN before'[t].snap.data.videos ELSE <<>>)]_vars

\* a playlist load has returned the items of a completed fetch cycle
FetchedPlaylist(t) ==
  call[t].op = "playlist" /\ pc[t] = "done" /\ result[t].via = "fetched"

\* C18: after a successful fetch cycle of a playlist load the Snapshot file holds the
\* returned items in the returned order with videoCount their number, the Ledger entry
\* has the Snapshot's lastFetched and count and the caller's completion flag, and
\* reading the Snapshot back gives the same item sequence.
C18_SnapshotAndEntryAgree ==
  \A t \in Tasks :
    FetchedPlaylist(t) =>
      LET c == call[t].coll
          snap == snapFile[c]
          entry == EntryOf(ledgerFile, c)
      IN /\ snap.kind = "ok"
         /\ snap.data.videos = result[t].items
         /\ snap.data.videoCount = Len(result[t].items)
         /\ snap.data.isComplete = call[t].isComplete
         /\ entry = <<[lastFetched |-> snap.data.lastFetched,
                       isComplete |-> call[t].isComplete,
                       videoCount |-> snap.data.videoCount]>>
         /\ getCachedPlaylist(c).some
         /\ getCachedPlaylist(c).videos = result[t].items

\* a cycle whose detail responses held fewer items than ids were requested, in two
\* batches, replaced an earlier Snapshot
C18_Witness ==
  \E t \in Tasks :
    /\ FetchedPlaylist(t)
    /\ batchAt[t] > 0
    /\ Len(result[t].items) > 0 /\ Len(result[t].items) < Len(videoIds[t])
    /\ before[t].snap.kind = "ok"
    /\ snapFile[call[t].coll].data.videos = result[t].items

\* the entry an update carries for a key it names
CarriedEntry(upd, k) == EntryOf([kind |-> "ok", data |-> upd], k)

\* C19: within one process every Ledger update leaves the entries of the keys it does
\* not name as they were (playlist entries and the channel entry alike) and writes the
\* entries it names, however the tasks of the process interleave at their awaits.
C19_UpdatesMergeWithinProcess ==
  [][\A t \in Tasks :
       WritesLedger(t) =>
         \A k \in Colls :
           EntryOf(ledgerFile', k) = IF k \in Named(newMetadata[t])
                                     THEN CarriedEntry(newMetadata[t], k)
                                     ELSE EntryOf(ledgerFile, k)]_vars

\* two tasks of the process have fetched different collections at the same time and the
\* Ledger holds the entries of both
C19_Witness ==
  /\ \A t \in Tasks : pc[t] = "done" /\ result[t].via = "fetched"
  /\ call[1].coll # call[2].coll
  /\ \A t \in Tasks : EntryOf(ledgerFile, call[t].coll) = CarriedEntry(newMetadata[t], call[t].coll)
  /\ \A t \in Tasks : EntryOf(ledgerFile, call[t].coll) # <<>>
\* task t is inside acquireLock()
AcquirePcs == {"acqLoop", "acqWrite", "acqRead", "acqUnlinkStale", "acqUnlinkCorrupt", "acqDelay"}
Acquiring(t) == pc[t] \in AcquirePcs

\* task t sleeps in delay(50) and the clock of the model has reached its last tick
WaitsOnStoppedClock(t) ==
  pc[t] = "acqDelay" /\ now < wakeAt[t] /\ ticks = limits.ticks

\* the loop test at a moment when the timeout has elapsed returns not-granted and leaves
\* the marker alone; not-granted is returned in no other case
TimeoutReturnsNotGranted ==
  \A t \in Tasks :
    /\ (pc[t] = "acqLoop" /\ pc'[t] # pc[t] /\ now - startTime[t] >= LOCK_TIMEOUT_MS)
         => (pc'[t] = "done" /\ result'[t].via = "skipped" /\ ~locked'[t]
             /\ lockFile' = lockFile)
    /\ (Acquiring(t) /\ ~Acquiring(t)' /\ result'[t].via = "skipped")
         => now - startTime[t] >= LOCK_TIMEOUT_MS

\* C20: acquire() never hangs: whatever the other processes do with the marker, a
\* process inside acquire() that stays alive leaves it as long as the clock advances,
\* and a loop test made once 30 s have elapsed since the call returns not-granted
C20_AcquireNeverHangs ==
  /\ \A t \in Tasks :
       Acquiring(t) ~> (~Acquiring(t) \/ crashed[t] \/ WaitsOnStoppedClock(t))
  /\ [][TimeoutReturnsNotGranted]_vars

\* acquire() has returned not-granted while the marker of a dead process, whose
\* creation time was never written, is still there
C20_Witness ==
  \E t, u \in Tasks :
    /\ t # u
    /\ pc[t] = "done" /\ result[t].via = "skipped" /\ ~locked[t]
    /\ now - startTime[t] >= LOCK_TIMEOUT_MS
    /\ crashed[u] /\ lockFile.kind = "present" /\ lockFile.owner = u /\ ~lockFile.written

\* C21: a Ledger update whose acquire() returned not-granted returns normally, has not
\* written the Ledger, and has not removed the marker of a process holding the lock.
C21_TimeoutIsNonFatal ==
  \A t \in Tasks :
    (pc[t] = "done" /\ call[t].op = "update" /\ result[t].via = "skipped")
      => /\ result[t].kind = "value"
         /\ "ledger" \notin wrote[t]
         /\ "heldMarker" \notin wrote[t]

\* task t, in markPlaylistComplete, writes the Ledger file; the file holds an entry of
\* the collection and is still what saveMetadata read a moment ago
MarkWrites(t) ==
  /\ WritesLedger(t)
  /\ call[t].op = "mark"
  /\ ReadLedger(ledgerFile, now) = currentMetadata[t]
  /\ EntryOf(ledgerFile, call[t].coll) # <<>>

\* C22: markComplete(id, flag) on a collection that has a Ledger entry changes only the
\* completion flag of that entry: its lastFetched and videoCount, every other entry and
\* every Snapshot file stay as they were.
C22_MarkCompleteChangesOnlyFlag ==
  [][\A t \in Tasks :
       MarkWrites(t) =>
         LET c == call[t].coll
         IN /\ EntryOf(ledgerFile', c) =
                 <<[EntryOf(ledgerFile, c)[1] EXCEPT !.isComplete = call[t].isComplete]>>
            /\ \A k \in Colls \ {c} : EntryOf(ledgerFile', k) = EntryOf(ledgerFile, k)
            /\ snapFile' = snapFile]_vars

\* the call of task t that has just returned directly follows a clearCache() of its
\* process, and the cache directory has not been written since
AfterClear(t) ==
  /\ pc[t] = "done"
  /\ prev[t].call.op = "clear"

\* C23: after clear() the calling process sees an empty cache, whatever its in-memory
\* Ledger copy held and whether or not the directory existed: stats() reports zero
\* collections and items, isReady() is false, a cacheOnly load returns no item.
C23_ClearLeavesEmptyCache ==
  \A t \in Tasks :
    AfterClear(t) =>
      /\ call[t].op = "stats" => result[t].items = <<0, 0, 0>>
      /\ call[t].op = "ready" => result[t].via = "notReady"
      /\ (call[t].op \in {"playlist", "channel"} /\ call[t].cacheOnly)
           => result[t].items = <<>>

\* C24: whatever the Ledger file and the Snapshot files hold (nothing, text that does
\* not parse, JSON of another shape), loadCollection, stats(), isReady() and validate()
\* return to their caller without raising an error.
C24_CorruptionNeverRaises ==
  \A t \in Tasks :
    (pc[t] = "done" /\ call[t].op \in {"playlist", "channel", "stats", "ready", "validate"})
      => result[t].kind = "value"

\* C25: warmup never aborts mid-batch: it takes the channel and then every configured
\* playlist exactly once, in configuration order, and the failure count of its summary
\* is the number of collections whose fetch cycle failed.
C25_WarmupCountsFailures ==
  /\ IsPrefix(warmup.order, WarmupOrder)
  /\ warmup.stage = "summary"
       => /\ warmup.order = WarmupOrder
          /\ warmup.errorCount = warmup.failedCycles

\* C26: loadChannel with cacheOnly=true and forceRefresh=false returns the items of
\* channel.json whenever that file exists and is readable, whether or not the Ledger has
\* a channel entry.
C26_ChannelSnapshotWithoutEntry ==
  \A t \in Tasks :
    (/\ pc[t] = "done" /\ call[t].op = "channel"
     /\ call[t].cacheOnly /\ ~call[t].forceRefresh
     /\ before[t].snap.kind = "ok")
      => result[t].kind = "value" /\ result[t].items = before[t].snap.data.videos

\* task t is between the creation of its marker and the end of its releaseLock()
InsideUpdate(t) == pc[t] \in {"acqWrite", "csRead", "csWrite", "release"}

C28_EntriesHaveSnapshots ==
  /\ \A k \in Colls : EntryOf(ledgerFile, k) # <<>> => snapFile[k].kind # "absent"
  /\ \A t \in Tasks :
       (pc[t] = "done" /\ call[t].op = "validate")
         => result[t] = Returned(<<0, 0>>, "valid")

\* a process died after writing a Snapshot and before its Ledger entry, the Ledger has
\* entries of the channel and of a playlist, and validate() has answered
C28_Witness ==
  /\ \E t \in Tasks : crashed[t] /\ pc[t] \in {"metaRead", "metaWrite"}
  /\ \E t \in Tasks : pc[t] = "done" /\ call[t].op = "validate" /\ ~crashed[t]
                       /\ before[t].meta.playlists # <<>>
  /\ \E k \in Colls : EntryOf(ledgerFile, k) # <<>>

\* no operation is in progress and no process has died
Quiescent == \A t \in Tasks : pc[t] \in {"idle", "done"} /\ ~crashed[t]

\* C29: in every quiescent state reached by processes that load and mark the same
\* collection concurrently, the Ledger entry of a playlist has the lastFetched and the
\* videoCount of the Snapshot file on disk, and videoCount is the number of its items.
C29_LedgerSummarisesSnapshots ==
  Quiescent =>
    \A k \in Playlists :
      (EntryOf(ledgerFile, k) # <<>> /\ snapFile[k].kind = "ok")
        => /\ EntryOf(ledgerFile, k)[1].lastFetched = snapFile[k].data.lastFetched
           /\ EntryOf(ledgerFile, k)[1].videoCount = snapFile[k].data.videoCount
           /\ snapFile[k].data.videoCount = Len(snapFile[k].data.videos)

\* C30: startStudySession persists both the new session and the streak update: when
\* it returns on a day other than the stored lastStudyDate, the stored data has the new
\* session, lastStudyDate is today, currentStreak is the previous value plus one if the
\* previous study date was yesterday and 1 otherwise; and after every call of
\* startStudySession or updateStudyStreak longestStreak >= currentStreak
SessionStarted == study'.ids # study.ids

C30_SessionAndStreakPersisted ==
  [][/\ (study'.stored # <<>>) =>
          study'.stored[1].streak.longestStreak >= study'.stored[1].streak.currentStreak
     /\ (SessionStarted /\ LoadGlobalData.streak.lastStudyDate # study.today)
          => /\ Includes(study'.stored[1].sessions, study'.ids)
             /\ study'.stored[1].streak.lastStudyDate = study.today
             /\ study'.stored[1].streak.currentStreak =
                  IF LoadGlobalData.streak.lastStudyDate = Yesterday
                  THEN LoadGlobalData.streak.currentStreak + 1
                  ELSE 1]_vars

====
